---- MODULE Spec2Model ----
(***************************************************************************)
(* next-bun-compile: model of generateEntryPoint (src/src/generate.ts,    *)
(* second definition, lines 257-677) over an explicit file system.        *)
(*                                                                         *)
(* A path is a sequence of segment names.  The file system `fs` is a      *)
(* function from the paths of the regular files to their contents; a      *)
(* directory exists exactly when some file lies below it.  A file content *)
(* is a sequence of fragments, the pieces of text the program looks for   *)
(* (require("...") calls, the resolve assignment, the nextConfig literal) *)
(* or writes (import lines, map entries, extraction pairs).               *)
(***************************************************************************)
EXTENDS Integers, Sequences, FiniteSets, TLC

(***************************************************************************)
(* Bounds of the model.                                                    *)
(***************************************************************************)
MaxDepth == 2
MaxServers == 2
MaxRuns == 2
MaxStack == 5       \* depth at which the call stack of trace overflows
MaxHookLen == 3     \* fragments in a require-hook.js
MaxPatches == 2     \* calls of patchRequireHook on one tree

(***************************************************************************)
(* Paths.                                                                  *)
(***************************************************************************)
ProjectDir == <<>>
DistDir == <<".next">>
StandaloneDir == <<".next", "standalone">>

\* Directory-listing order of the names the model uses (ASCII order).
NameOrder ==
  << ".bun", ".next", "@opentelemetry", "@opentelemetry+api@1.9.0", "BUILD_ID",
     "__external", "_next", "a.js", "api", "apps", "assets.generated.js",
     "b.js", "bun-compile-ctx.json", "c.js", "chunks", "compiled", "critters",
     "critters@0.0.20", "dev", "dist", "favicon.ico", "index.js", "lib",
     "nested", "next", "next-dev-server.js", "next@16.0.0", "node_modules",
     "package.json", "packages", "public", "react", "require-hook.js",
     "router-utils", "server", "server-entry.js", "server.js",
     "setup-dev-bundler.js", "srv", "ssr.js", "ssr.js.map", "standalone",
     "static", "web" >>

Rank(n) ==
  IF \E i \in 1..Len(NameOrder) : NameOrder[i] = n
  THEN CHOOSE i \in 1..Len(NameOrder) : NameOrder[i] = n
  ELSE Len(NameOrder) + 1

IsPrefix(p, q) == Len(p) <= Len(q) /\ SubSeq(q, 1, Len(p)) = p
IsProperPrefix(p, q) == Len(p) < Len(q) /\ SubSeq(q, 1, Len(p)) = p

Last(s) == s[Len(s)]
Front(s) == SubSeq(s, 1, Len(s) - 1)

\* path normalisation of node:path join: "." is dropped, ".." removes the
\* segment before it, and a ".." with nothing to remove is kept.
RECURSIVE NormalizeFrom(_, _)
NormalizeFrom(done, rest) ==
  IF rest = <<>> THEN done
  ELSE LET h == Head(rest) IN
       IF h = "." THEN NormalizeFrom(done, Tail(rest))
       ELSE IF h = ".." /\ done # <<>> /\ Last(done) # ".."
            THEN NormalizeFrom(Front(done), Tail(rest))
            ELSE NormalizeFrom(Append(done, h), Tail(rest))

join(a, b) == NormalizeFrom(<<>>, a \o b)

RECURSIVE CommonLen(_, _)
CommonLen(p, q) ==
  IF p # <<>> /\ q # <<>> /\ Head(p) = Head(q)
  THEN 1 + CommonLen(Tail(p), Tail(q))
  ELSE 0

\* node:path relative(from, to) on normalised paths.
relative(from, to) ==
  LET k == CommonLen(from, to) IN
  [i \in 1..(Len(from) - k) |-> ".."] \o SubSeq(to, k + 1, Len(to))

(***************************************************************************)
(* File contents.                                                          *)
(***************************************************************************)
Frag(k, v, w) == [k |-> k, v |-> v, w |-> w]
Text(t) == <<Frag("text", <<t>>, <<>>)>>
Require(s) == Frag("require", s, <<>>)

\* the line patchRequireHook looks for, and the two lines it puts instead
ResolveTarget == Frag("resolve", <<"let resolve = ... require.resolve;">>, <<>>)
ResolveReplacement ==
  Frag("resolve", <<"let _resolve = ... require.resolve;",
                    "let resolve = (id) => { try ... catch ... };">>, <<>>)

\* "const nextConfig = {...}\n" in server.js
NextConfigLiteral == Frag("nextConfig", <<"{\"env\":{}}">>, <<>>)

(***************************************************************************)
(* node:fs on the modelled file system.                                    *)
(***************************************************************************)
IsFile(f, p) == p \in DOMAIN f
isDirectory(f, p) == \E q \in DOMAIN f : IsProperPrefix(p, q)
existsSync(f, p) == IsFile(f, p) \/ isDirectory(f, p)

readdirSet(f, dir) ==
  { q[Len(dir) + 1] : q \in { r \in DOMAIN f : IsProperPrefix(dir, r) } }

RECURSIVE SortNames(_)
SortNames(S) ==
  IF S = {} THEN <<>>
  ELSE LET m == CHOOSE x \in S : \A y \in S : Rank(x) <= Rank(y)
       IN <<m>> \o SortNames(S \ {m})

readdirSync(f, dir) == SortNames(readdirSet(f, dir))

\* writeFileSync succeeds when every ancestor is a directory (or can be
\* made one) and the path itself is not a directory.
CanWrite(f, p) ==
  /\ ~isDirectory(f, p)
  /\ \A i \in 0..(Len(p) - 1) : ~IsFile(f, SubSeq(p, 1, i))

writeFileSync(f, p, c) == [q \in (DOMAIN f) \cup {p} |-> IF q = p THEN c ELSE f[q]]

RemoveFiles(f, ps) == [q \in (DOMAIN f) \ ps |-> f[q]]

\* walkDir(dir, base = dir)
RECURSIVE walkDir(_, _, _)
RECURSIVE WalkEntries(_, _, _, _)
WalkEntries(f, dir, base, entries) ==
  IF entries = <<>> THEN <<>>
  ELSE LET full == join(dir, <<Head(entries)>>)
           here == IF isDirectory(f, full)
                   THEN walkDir(f, full, base)
                   ELSE << [absolutePath |-> full,
                            relativePath |-> relative(base, full)] >>
       IN here \o WalkEntries(f, dir, base, Tail(entries))

walkDir(f, dir, base) ==
  IF ~existsSync(f, dir) THEN <<>>
  ELSE WalkEntries(f, dir, base, readdirSync(f, dir))

(***************************************************************************)
(* findServerDir                                                           *)
(***************************************************************************)
NotFound == <<"<not found>">>

RECURSIVE search(_, _)
RECURSIVE SearchEntries(_, _, _)
SearchEntries(f, dir, entries) ==
  IF entries = <<>> THEN NotFound
  ELSE LET entry == Head(entries)
           full == join(dir, <<entry>>)
           rest == SearchEntries(f, dir, Tail(entries))
       IN IF entry = "node_modules" THEN rest
          ELSE IF ~isDirectory(f, full) THEN rest
          ELSE IF existsSync(f, join(full, <<"server.js">>)) THEN full
          ELSE LET found == search(f, full)
               IN IF found # NotFound THEN found ELSE rest

search(f, dir) ==
  IF ~existsSync(f, dir) THEN NotFound
  ELSE SearchEntries(f, dir, readdirSync(f, dir))

\* findServerDir searching the subdirectories before looking at the root
findServerDir_searchFirst(f, standaloneDir) ==
  LET found == search(f, standaloneDir) IN
  IF found # NotFound THEN found
  ELSE IF existsSync(f, join(standaloneDir, <<"server.js">>)) THEN standaloneDir
  ELSE NotFound

\* findServerDir falling back to the root instead of throwing
findServerDir_fallbackRoot(f, standaloneDir) ==
  IF existsSync(f, join(standaloneDir, <<"server.js">>)) THEN standaloneDir
  ELSE LET found == search(f, standaloneDir) IN
       IF found # NotFound THEN found ELSE standaloneDir

\* the directory returned, or NotFound where the code throws
findServerDir(f, standaloneDir) ==
  IF existsSync(f, join(standaloneDir, <<"server.js">>))
  THEN standaloneDir
  ELSE search(f, standaloneDir)

(***************************************************************************)
(* Strings: the two tests the code makes on names.                         *)
(***************************************************************************)
\* names that may stand before a ".js" suffix in the modelled trees
Stems == {"a", "b", "c", "d", "e", "gone", "index", "s", "ssr", "server",
          "package.json", "react", "x"}

endsWithJs(s) ==
  \/ \E n \in Stems : s = n \o ".js"
  \/ s \in {"next-dev-server.js", "setup-dev-bundler.js", "require-hook.js",
            "assets.generated.js", "server-entry.js"}

\* version parts of the entries of node_modules/.bun
VersionTails == {"16.0.0", "1.9.0", "0.0.20"}

\* entry.startsWith(scope + "@")
startsWithScope(entry, scope) == \E v \in VersionTails : entry = scope \o "@" \o v

\* pkg.startsWith("@") ? pkg.split("/")[0] + "+" + pkg.split("/")[1] : pkg
bunScope(pkg) == IF Len(pkg) = 2 THEN pkg[1] \o "+" \o pkg[2] ELSE pkg[1]

(***************************************************************************)
(* findPackageDirs                                                         *)
(***************************************************************************)
RECURSIVE HoistedDirs(_, _, _, _)
HoistedDirs(f, bunDir, pkg, entries) ==
  IF entries = <<>> THEN <<>>
  ELSE LET entry == Head(entries)
           hoisted == join(bunDir, <<entry, "node_modules">> \o pkg)
           rest == HoistedDirs(f, bunDir, pkg, Tail(entries))
       IN IF ~startsWithScope(entry, bunScope(pkg)) THEN rest
          ELSE IF existsSync(f, hoisted) THEN <<hoisted>> \o rest
          ELSE rest

\* findPackageDirs without the scan of node_modules/.bun
findPackageDirs_directOnly(f, nodeModulesDir, pkg) ==
  LET direct == join(nodeModulesDir, pkg)
  IN IF existsSync(f, direct) THEN <<direct>> ELSE <<>>

findPackageDirs(f, nodeModulesDir, pkg) ==
  LET direct == join(nodeModulesDir, pkg)
      bunDir == join(nodeModulesDir, <<".bun">>)
  IN (IF existsSync(f, direct) THEN <<direct>> ELSE <<>>)
     \o (IF existsSync(f, bunDir)
         THEN HoistedDirs(f, bunDir, pkg, readdirSync(f, bunDir))
         ELSE <<>>)

(***************************************************************************)
(* generateStubs                                                           *)
(***************************************************************************)
stubs ==
  << [pkg |-> <<"next">>,
      subpath |-> <<"dist", "server", "dev", "next-dev-server.js">>,
      content |-> Text("module.exports = { default: null };")],
     [pkg |-> <<"next">>,
      subpath |-> <<"dist", "server", "lib", "router-utils", "setup-dev-bundler.js">>,
      content |-> Text("module.exports = {};")],
     [pkg |-> <<"@opentelemetry", "api">>,
      subpath |-> <<"index.js">>,
      content |-> Text("throw new Error('not installed');")],
     [pkg |-> <<"critters">>,
      subpath |-> <<"index.js">>,
      content |-> Text("module.exports = {};")] >>

\* the inner loop body without the existsSync(fullPath) test
StubAt_overwrite(f, pkgDir, stub) ==
  LET fullPath == join(pkgDir, stub.subpath) IN
  IF ~CanWrite(f, fullPath) THEN [fs |-> f, threw |-> TRUE]
  ELSE [fs |-> writeFileSync(f, fullPath, stub.content), threw |-> FALSE]

\* the body of the inner loop: one stub at one install location.
\* The result is the file system and whether the write threw.
StubAt(f, pkgDir, stub) ==
  LET fullPath == join(pkgDir, stub.subpath) IN
  IF existsSync(f, fullPath) THEN [fs |-> f, threw |-> FALSE]
  ELSE IF ~CanWrite(f, fullPath) THEN [fs |-> f, threw |-> TRUE]
  ELSE [fs |-> writeFileSync(f, fullPath, stub.content), threw |-> FALSE]

RECURSIVE StubDirs(_, _, _)
StubDirs(f, pkgDirs, stub) ==
  IF pkgDirs = <<>> THEN [fs |-> f, threw |-> FALSE]
  ELSE LET r == StubAt(f, Head(pkgDirs), stub)
       IN IF r.threw THEN r ELSE StubDirs(r.fs, Tail(pkgDirs), stub)

RECURSIVE StubLoop(_, _, _)
StubLoop(f, nodeModulesDir, todo) ==
  IF todo = <<>> THEN [fs |-> f, threw |-> FALSE]
  ELSE LET stub == Head(todo)
           found == findPackageDirs(f, nodeModulesDir, stub.pkg)
           pkgDirs == IF Len(found) = 0
                      THEN <<join(nodeModulesDir, stub.pkg)>>
                      ELSE found
           r == StubDirs(f, pkgDirs, stub)
       IN IF r.threw THEN r ELSE StubLoop(r.fs, nodeModulesDir, Tail(todo))

generateStubs(f, standaloneDir) ==
  StubLoop(f, join(standaloneDir, <<"node_modules">>), stubs)

(***************************************************************************)
(* patchRequireHook                                                        *)
(***************************************************************************)
includes(content, frag) == \E i \in 1..Len(content) : content[i] = frag

\* String.prototype.replace with a string pattern: the first occurrence only
replace(content, target, replacement) ==
  IF ~includes(content, target) THEN content
  ELSE LET i == CHOOSE j \in 1..Len(content) :
                  /\ content[j] = target
                  /\ \A k \in 1..(j - 1) : content[k] # target
       IN [content EXCEPT ![i] = replacement]

RECURSIVE PatchDirs(_, _)
PatchDirs(f, nextDirs) ==
  IF nextDirs = <<>> THEN f
  ELSE LET hookPath == join(Head(nextDirs), <<"dist", "server", "require-hook.js">>)
       IN IF ~existsSync(f, hookPath) THEN PatchDirs(f, Tail(nextDirs))
          ELSE IF ~includes(f[hookPath], ResolveTarget) THEN PatchDirs(f, Tail(nextDirs))
          ELSE PatchDirs(writeFileSync(f, hookPath,
                           replace(f[hookPath], ResolveTarget, ResolveReplacement)),
                         Tail(nextDirs))

patchRequireHook(f, standaloneDir) ==
  PatchDirs(f, findPackageDirs(f, join(standaloneDir, <<"node_modules">>), <<"next">>))

(***************************************************************************)
(* collectExternalModules                                                  *)
(***************************************************************************)
Elems(s) == { s[i] : i \in 1..Len(s) }

\* Set.prototype.add on a set kept in insertion order
Add(set, x) == IF x \in Elems(set) THEN set ELSE Append(set, x)

requiresOf(content) ==
  SelectSeq(content, LAMBDA fr : fr.k = "require")

\* /require\("(next\/dist\/[^"]+)"\)/g
IsNextDistSpec(s) == Len(s) >= 3 /\ s[1] = "next" /\ s[2] = "dist"

RECURSIVE ChunkSeeds(_, _, _)
ChunkSeeds(f, files, seeds) ==
  IF files = <<>> THEN seeds
  ELSE LET absolutePath == Head(files).absolutePath
           reqs == requiresOf(f[absolutePath])
           matches == SelectSeq(reqs, LAMBDA fr : IsNextDistSpec(fr.v))
           RECURSIVE AddAll(_, _)
           AddAll(set, ms) ==
             IF ms = <<>> THEN set ELSE AddAll(Add(set, Head(ms).v), Tail(ms))
       IN IF ~endsWithJs(Last(absolutePath))
          THEN ChunkSeeds(f, Tail(files), seeds)
          ELSE ChunkSeeds(f, Tail(files), AddAll(seeds, matches))

\* if (!resolved.endsWith(".js")) resolved += ".js"
withJs(resolved) ==
  IF resolved = <<>> THEN <<".js">>
  ELSE IF endsWithJs(Last(resolved)) THEN resolved
  ELSE Append(Front(resolved), Last(resolved) \o ".js")

\* the specifier a require("...") of `file` is traced as, or <<>> if ignored
resolveReq(file, req) ==
  IF req[1] \in {".", ".."} THEN withJs(join(file, <<"..">> \o req))
  ELSE IF req[1] = "next" /\ Len(req) >= 2 THEN withJs(req)
  ELSE <<>>

RECURSIVE trace(_, _, _, _)
RECURSIVE TraceReqs(_, _, _, _, _)
TraceReqs(f, standaloneDir, file, reqs, deps) ==
  IF reqs = <<>> THEN deps
  ELSE LET resolved == resolveReq(file, Head(reqs).v)
           deps1 == IF resolved # <<>>
                    THEN trace(f, standaloneDir, resolved, deps)
                    ELSE deps
       IN TraceReqs(f, standaloneDir, file, Tail(reqs), deps1)

trace(f, standaloneDir, file0, deps) ==
  IF file0 \in Elems(deps) THEN deps
  ELSE LET fullPath0 == join(standaloneDir, <<"node_modules">> \o file0)
           isDir == existsSync(f, fullPath0) /\ isDirectory(f, fullPath0)
           deps1 == IF isDir /\ existsSync(f, join(fullPath0, <<"package.json">>))
                    THEN Add(deps, file0 \o <<"package.json">>)
                    ELSE deps
           file == IF isDir THEN file0 \o <<"index.js">> ELSE file0
           fullPath == join(standaloneDir, <<"node_modules">> \o file)
       IN IF ~existsSync(f, fullPath) THEN deps1
          ELSE TraceReqs(f, standaloneDir, file, requiresOf(f[fullPath]),
                         Add(deps1, file))

RECURSIVE TraceSeeds(_, _, _, _)
TraceSeeds(f, standaloneDir, seeds, deps) ==
  IF seeds = <<>> THEN deps
  ELSE TraceSeeds(f, standaloneDir, Tail(seeds),
                  trace(f, standaloneDir, Head(seeds), deps))

\* collectExternalModules reading the chunks of the standalone root
collectExternalModules_rootChunks(f, standaloneDir, serverDir) ==
  LET chunksDir == join(standaloneDir, <<".next", "server", "chunks">>) IN
  IF ~existsSync(f, chunksDir) THEN <<>>
  ELSE TraceSeeds(f, standaloneDir,
                  ChunkSeeds(f, walkDir(f, chunksDir, chunksDir), <<>>), <<>>)

collectExternalModules(f, standaloneDir, serverDir) ==
  LET chunksDir == join(serverDir, <<".next", "server", "chunks">>) IN
  IF ~existsSync(f, chunksDir) THEN <<>>
  ELSE TraceSeeds(f, standaloneDir,
                  ChunkSeeds(f, walkDir(f, chunksDir, chunksDir), <<>>), <<>>)

(***************************************************************************)
(* generateEntryPoint, step by step                                        *)
(***************************************************************************)
VARIABLES
  fs,               \* the file system
  pc,               \* the statement generateEntryPoint is at
  run,              \* number of the current invocation
  serverDir,        \* const serverDir
  staticFiles,      \* const staticFiles
  publicFiles,      \* const publicFiles
  runtimeFiles,     \* const runtimeFiles (the external modules are pushed on it)
  externalModules,  \* const externalModules
  assetPrefix,      \* const { assetPrefix } = ctx
  assetsToEmbed,    \* const assetsToEmbed
  result,           \* the value returned
  err,              \* the error thrown
  prevOut           \* the two output files of the previous invocation

\* the external-module tracer, one call or return at a time
VARIABLES
  tpc,              \* "off", "tracing", "returned" or "overflow"
  tstack,           \* the active calls of trace: [file, reqs still to visit]
  deps,             \* const deps (insertion order)
  seedsLeft,        \* the seeds not yet traced
  reads             \* the readFileSync calls trace has made, in order

\* patchRequireHook applied to a tree on its own
VARIABLES
  hookHist          \* content of require-hook.js before and after each call

\* the generated server-entry.js running inside the compiled binary
VARIABLES
  bpc,              \* where the bootstrap is
  bin,              \* what the binary embeds: extractions and assetMap
  disk,             \* the files below baseDir
  disk0,            \* the files below baseDir when the binary started
  idx,              \* position of the extraction loop in extractions
  failure,          \* what was thrown or rejected, "none" if nothing
  exitCode,         \* the status of process.exit, -1 while running
  logged,           \* console.error(err) was called
  started           \* startServer was called

genVars == << fs, pc, run, serverDir, staticFiles, publicFiles, runtimeFiles,
              externalModules, assetPrefix, assetsToEmbed, result, err, prevOut >>
traceVars == << tpc, tstack, deps, seedsLeft, reads >>
patchVars == << hookHist >>
bootVars == << bpc, bin, disk, disk0, idx, failure, exitCode, logged, started >>

vars == << genVars, traceVars, patchVars, bootVars >>

NoBin == [extractions |-> <<>>, assetMap |-> <<>>]

TraceIdle ==
  /\ tpc = "off"
  /\ tstack = <<>>
  /\ deps = <<>>
  /\ seedsLeft = <<>>
  /\ reads = <<>>

PatchIdle == hookHist = <<>>

BootIdle ==
  /\ bpc = "off"
  /\ bin = NoBin
  /\ disk = <<>>
  /\ disk0 = <<>>
  /\ idx = 0
  /\ failure = "none"
  /\ exitCode = -1
  /\ logged = FALSE
  /\ started = FALSE

\* what writeFileSync throws below a path that is a regular file
ErrNotDir == "ENOTDIR: not a directory"

None == <<"<none>">>
NoOut == [assets |-> <<>>, entry |-> <<>>]

ctxPath == join(DistDir, <<"bun-compile-ctx.json">>)
assetsPath(dir) == join(dir, <<"assets.generated.js">>)
entryPath(dir) == join(dir, <<"server-entry.js">>)

withUrl(files, prefix) ==
  [i \in 1..Len(files) |->
     [absolutePath |-> files[i].absolutePath,
      relativePath |-> files[i].relativePath,
      urlPath |-> prefix \o files[i].relativePath]]

\* the loop over externalPaths: copies into .next/__external and pushes on
\* runtimeFiles
RECURSIVE CopyLoop(_, _, _, _)
CopyLoop(f, rt, externalDir, mods) ==
  IF mods = <<>> THEN [fs |-> f, runtimeFiles |-> rt]
  ELSE LET mod == Head(mods)
           src == join(StandaloneDir, <<"node_modules">> \o mod)
           dest == join(externalDir, mod)
       IN IF ~existsSync(f, src) THEN CopyLoop(f, rt, externalDir, Tail(mods))
          ELSE CopyLoop(writeFileSync(f, dest, f[src]),
                        Append(rt, [absolutePath |-> dest,
                                    relativePath |-> <<"__external">> \o mod,
                                    urlPath |-> <<"__runtime", ".next", "node_modules">> \o mod]),
                        externalDir, Tail(mods))

\* the embed set with the assetPrefix test left out
embedSet_alwaysStatic(prefix, st, pu, rt) == st \o pu \o rt

\* assetPrefix ? [...publicFiles, ...runtimeFiles]
\*             : [...staticFiles, ...publicFiles, ...runtimeFiles]
embedSet(prefix, st, pu, rt) ==
  IF prefix # "" THEN pu \o rt ELSE st \o pu \o rt

\* the registry with the import paths taken relative to the standalone root
assetsText_fromStandalone(dir, assets) ==
  [i \in 1..Len(assets) |->
     Frag("import", assets[i].urlPath,
          <<".">> \o relative(StandaloneDir, assets[i].absolutePath))]
  \o [i \in 1..Len(assets) |-> Frag("map", assets[i].urlPath, <<>>)]

\* the text of assets.generated.js: the import lines, then the map entries
assetsText(dir, assets) ==
  [i \in 1..Len(assets) |->
     Frag("import", assets[i].urlPath,
          <<".">> \o relative(dir, assets[i].absolutePath))]
  \o [i \in 1..Len(assets) |-> Frag("map", assets[i].urlPath, <<>>)]

\* standaloneServerSrc.match(/const nextConfig = ({[\s\S]*?})\n/)
configMatch(content) ==
  SelectSeq(content, LAMBDA fr : fr.k = "nextConfig")

\* the extraction path with the __runtime/ prefix left in place
diskPath_keepPrefix(a) ==
  IF Len(a.urlPath) >= 2 /\ a.urlPath[1] = "__runtime"
  THEN a.urlPath
  ELSE IF Len(a.urlPath) >= 4 /\ SubSeq(a.urlPath, 1, 3) = <<"", "_next", "static">>
  THEN <<".next", "static">> \o a.relativePath
  ELSE <<"public">> \o a.relativePath

diskPath(a) ==
  IF Len(a.urlPath) >= 2 /\ a.urlPath[1] = "__runtime"
  THEN Tail(a.urlPath)
  ELSE IF Len(a.urlPath) >= 4 /\ SubSeq(a.urlPath, 1, 3) = <<"", "_next", "static">>
  THEN <<".next", "static">> \o a.relativePath
  ELSE <<"public">> \o a.relativePath

\* the text of server-entry.js: the configuration and the extraction list
entryText(config, assets) ==
  <<Frag("nextConfig", config.v, <<>>)>>
  \o [i \in 1..Len(assets) |-> Frag("extract", assets[i].urlPath, diskPath(assets[i]))]

FindServerDir ==
  /\ pc = "findServerDir"
  /\ LET found == findServerDir(fs, StandaloneDir) IN
     IF found = NotFound
     THEN /\ pc' = "failed"
          /\ err' = "Could not find server.js in standalone output"
          /\ UNCHANGED serverDir
     ELSE /\ pc' = "generateStubs"
          /\ serverDir' = found
          /\ UNCHANGED err
  /\ UNCHANGED << fs, run, staticFiles, publicFiles, runtimeFiles,
                  externalModules, assetPrefix, assetsToEmbed, result, prevOut >>
  /\ UNCHANGED << traceVars, patchVars, bootVars >>

GenerateStubs ==
  /\ pc = "generateStubs"
  /\ LET r == generateStubs(fs, StandaloneDir) IN
     /\ fs' = r.fs
     /\ IF r.threw
        THEN pc' = "failed" /\ err' = ErrNotDir
        ELSE pc' = "patchRequireHook" /\ UNCHANGED err
  /\ UNCHANGED << run, serverDir, staticFiles, publicFiles, runtimeFiles,
                  externalModules, assetPrefix, assetsToEmbed, result, prevOut >>
  /\ UNCHANGED << traceVars, patchVars, bootVars >>

PatchRequireHook ==
  /\ pc = "patchRequireHook"
  /\ fs' = patchRequireHook(fs, StandaloneDir)
  /\ pc' = "discoverAssets"
  /\ UNCHANGED << run, serverDir, staticFiles, publicFiles, runtimeFiles,
                  externalModules, assetPrefix, assetsToEmbed, result, err, prevOut >>
  /\ UNCHANGED << traceVars, patchVars, bootVars >>

DiscoverAssets ==
  /\ pc = "discoverAssets"
  /\ LET staticDir == join(DistDir, <<"static">>)
         publicDir == join(ProjectDir, <<"public">>)
         standaloneNextDir == join(serverDir, <<".next">>)
     IN /\ staticFiles' = withUrl(walkDir(fs, staticDir, staticDir), <<"", "_next", "static">>)
        /\ publicFiles' = withUrl(walkDir(fs, publicDir, publicDir), <<"">>)
        /\ runtimeFiles' = withUrl(walkDir(fs, standaloneNextDir, standaloneNextDir),
                                   <<"__runtime", ".next">>)
  /\ pc' = "copyExternalModules"
  /\ UNCHANGED << fs, run, serverDir, externalModules, assetPrefix,
                  assetsToEmbed, result, err, prevOut >>
  /\ UNCHANGED << traceVars, patchVars, bootVars >>

CopyExternalModules ==
  /\ pc = "copyExternalModules"
  /\ LET mods == collectExternalModules(fs, StandaloneDir, serverDir)
         r == CopyLoop(fs, runtimeFiles, join(serverDir, <<".next", "__external">>),
                       << <<"next", "package.json">> >> \o mods)
     IN /\ externalModules' = mods
        /\ fs' = r.fs
        /\ runtimeFiles' = r.runtimeFiles
  /\ pc' = "readBuildContext"
  /\ UNCHANGED << run, serverDir, staticFiles, publicFiles, assetPrefix,
                  assetsToEmbed, result, err, prevOut >>
  /\ UNCHANGED << traceVars, patchVars, bootVars >>

ReadBuildContext ==
  /\ pc = "readBuildContext"
  /\ IF ~existsSync(fs, ctxPath)
     THEN /\ pc' = "failed"
          /\ err' = "ENOENT: bun-compile-ctx.json"
          /\ UNCHANGED << assetPrefix, assetsToEmbed >>
     ELSE LET prefix == fs[ctxPath][1].v[1] IN
          /\ assetPrefix' = prefix
          /\ assetsToEmbed' = embedSet(prefix, staticFiles, publicFiles, runtimeFiles)
          /\ pc' = "writeAssets"
          /\ UNCHANGED err
  /\ UNCHANGED << fs, run, serverDir, staticFiles, publicFiles, runtimeFiles,
                  externalModules, result, prevOut >>
  /\ UNCHANGED << traceVars, patchVars, bootVars >>

WriteAssets ==
  /\ pc = "writeAssets"
  /\ fs' = writeFileSync(fs, assetsPath(serverDir), assetsText(serverDir, assetsToEmbed))
  /\ pc' = "writeServerEntry"
  /\ UNCHANGED << run, serverDir, staticFiles, publicFiles, runtimeFiles,
                  externalModules, assetPrefix, assetsToEmbed, result, err, prevOut >>
  /\ UNCHANGED << traceVars, patchVars, bootVars >>

WriteServerEntry ==
  /\ pc = "writeServerEntry"
  /\ LET m == configMatch(fs[join(serverDir, <<"server.js">>)]) IN
     IF m = <<>>
     THEN /\ pc' = "failed"
          /\ err' = "Could not extract nextConfig from standalone server.js"
          /\ UNCHANGED << fs, result >>
     ELSE /\ fs' = writeFileSync(fs, entryPath(serverDir), entryText(m[1], assetsToEmbed))
          /\ result' = serverDir
          /\ pc' = "done"
          /\ UNCHANGED err
  /\ UNCHANGED << run, serverDir, staticFiles, publicFiles, runtimeFiles,
                  externalModules, assetPrefix, assetsToEmbed, prevOut >>
  /\ UNCHANGED << traceVars, patchVars, bootVars >>

\* the two output files are deleted and generateEntryPoint is called again
\* on the tree the previous invocation left
Rerun ==
  /\ pc = "done"
  /\ run < MaxRuns
  /\ prevOut' = [assets |-> fs[assetsPath(serverDir)], entry |-> fs[entryPath(serverDir)]]
  /\ fs' = RemoveFiles(fs, {assetsPath(serverDir), entryPath(serverDir)})
  /\ run' = run + 1
  /\ pc' = "findServerDir"
  /\ serverDir' = None
  /\ staticFiles' = <<>>
  /\ publicFiles' = <<>>
  /\ runtimeFiles' = <<>>
  /\ externalModules' = <<>>
  /\ assetPrefix' = ""
  /\ assetsToEmbed' = <<>>
  /\ result' = None
  /\ UNCHANGED err
  /\ UNCHANGED << traceVars, patchVars, bootVars >>

(***************************************************************************)
(* The build trees generateEntryPoint is started on.                       *)
(***************************************************************************)
MkFs(S) == [p \in { e[1] : e \in S } |-> (CHOOSE e \in S : e[1] = p)[2]]

nm == join(StandaloneDir, <<"node_modules">>)

\* directories of the standalone tree that may hold a server.js: the root,
\* a chain of nested application directories, and a package directory
NestName(i) == IF i = 1 THEN "packages" ELSE IF i = 2 THEN "apps"
               ELSE IF i = 3 THEN "web" ELSE "nested"
Chain(d) == [i \in 1..d |-> NestName(i)]
ServerCandidates == { Chain(d) : d \in 0..MaxDepth } \cup { <<"node_modules", "srv">> }
Layouts == { L \in SUBSET ServerCandidates : Cardinality(L) <= MaxServers }

ServerJs(hasConfig) ==
  IF hasConfig
  THEN <<NextConfigLiteral, Frag("text", <<"process.exit(0);">>, <<>>)>>
  ELSE Text("process.exit(0);")

\* what the server chunks require
ChunkFiles(dir, graph) ==
  LET chunks == join(dir, <<".next", "server", "chunks">>) IN
  IF graph = "none"
  THEN { <<join(chunks, <<"ssr.js">>), Text("// no externals")>> }
  ELSE IF graph = "cycle"
  THEN { <<join(chunks, <<"ssr.js">>),
           <<Require(<<"next", "dist", "a.js">>), Require(<<"react">>)>> >> }
  ELSE { <<join(chunks, <<"ssr.js">>),
           <<Require(<<"next", "dist", "compiled", "react">>),
             Require(<<"next", "dist", "c.js">>)>> >>,
         <<join(chunks, <<"ssr.js.map">>),
           <<Require(<<"next", "dist", "b.js">>)>> >> }

RuntimeFiles(dir, graph) ==
  { <<join(dir, <<".next", "BUILD_ID">>), Text("build-id")>> } \cup ChunkFiles(dir, graph)

AppDirs(L) == { d \in L : d = <<>> \/ d[1] # "node_modules" }

StandaloneFiles(L, hasConfig, graph) ==
  { <<join(StandaloneDir, d \o <<"server.js">>), ServerJs(hasConfig)>> : d \in L }
  \cup UNION { RuntimeFiles(join(StandaloneDir, d), graph) : d \in AppDirs(L) }
  \cup (IF AppDirs(L) = {} THEN RuntimeFiles(StandaloneDir, graph) ELSE {})

\* the modules of next/dist the chunks may reach
GraphFiles(graph) ==
  LET dist == join(nm, <<"next", "dist">>) IN
  IF graph = "none" THEN {}
  ELSE { <<join(dist, <<"a.js">>),
           <<Require(<<".", "b">>), Require(<<"react">>), Require(<<"next", "dist", "c">>)>> >>,
         <<join(dist, <<"b.js">>), <<Require(<<".", "a.js">>)>> >>,
         <<join(dist, <<"compiled", "react", "package.json">>), Text("{\"name\":\"react\"}")>>,
         <<join(dist, <<"compiled", "react", "index.js">>),
           <<Require(<<"..", "..", "c">>)>> >> }

Hook(hasTarget) ==
  IF hasTarget THEN <<Frag("text", <<"\"use strict\";">>, <<>>), ResolveTarget>>
  ELSE Text("module.exports = {};")

NextPkg(dir, hasTarget, realDev) ==
  { <<join(dir, <<"package.json">>), Text("{\"name\":\"next\"}")>>,
    <<join(dir, <<"dist", "server", "require-hook.js">>), Hook(hasTarget)>> }
  \cup (IF realDev
        THEN { <<join(dir, <<"dist", "server", "dev", "next-dev-server.js">>),
                 Text("real dev server")>> }
        ELSE {})

Installs == {"plain", "real", "absent", "bun", "blocked"}

NodeModules(install, graph) ==
  IF install = "absent" THEN {}
  ELSE IF install = "blocked"
  THEN NextPkg(join(nm, <<"next">>), TRUE, FALSE) \cup GraphFiles(graph)
       \cup { <<join(nm, <<"critters">>), Text("not a directory")>> }
  ELSE IF install = "plain"
  THEN NextPkg(join(nm, <<"next">>), FALSE, FALSE) \cup GraphFiles(graph)
  ELSE IF install = "real"
  THEN NextPkg(join(nm, <<"next">>), TRUE, TRUE) \cup GraphFiles(graph)
       \cup { <<join(nm, <<"critters", "index.js">>), Text("real critters")>> }
  ELSE NextPkg(join(nm, <<"next">>), TRUE, FALSE) \cup GraphFiles(graph)
       \cup NextPkg(join(nm, <<".bun", "next@16.0.0", "node_modules", "next">>), TRUE, TRUE)
       \cup { <<join(nm, <<".bun", "@opentelemetry+api@1.9.0", "node_modules",
                          "@opentelemetry", "api", "index.js">>), Text("real otel")>>,
              <<join(nm, <<".bun", "critters@0.0.20", "node_modules",
                          "critters", "package.json">>), Text("{\"name\":\"critters\"}")>> }

Contexts == {"absent", "", "https://cdn.example.com"}
ContextFiles(ctx) ==
  IF ctx = "absent" THEN {} ELSE { <<ctxPath, <<Frag("ctx", <<ctx>>, <<>>)>> >> }

StaticSets == { {}, { <<"a.js">> } }
PublicSets == { {}, { <<"favicon.ico">> }, { <<"favicon.ico">>, <<"_next", "static", "a.js">> } }
Graphs == {"none", "cycle", "dir"}

AssetFiles(dir, rels) == { <<join(dir, r), Text("asset")>> : r \in rels }

Tree(L, hasConfig, graph, install, ctx, st, pu) ==
  MkFs(StandaloneFiles(L, hasConfig, graph)
       \cup NodeModules(install, graph)
       \cup ContextFiles(ctx)
       \cup AssetFiles(join(DistDir, <<"static">>), st)
       \cup AssetFiles(join(ProjectDir, <<"public">>), pu))

Init ==
  /\ \E L \in Layouts, hasConfig \in BOOLEAN, graph \in Graphs, install \in Installs,
        ctx \in Contexts, st \in StaticSets, pu \in PublicSets :
       fs = Tree(L, hasConfig, graph, install, ctx, st, pu)
  /\ pc = "findServerDir"
  /\ run = 1
  /\ serverDir = None
  /\ staticFiles = <<>>
  /\ publicFiles = <<>>
  /\ runtimeFiles = <<>>
  /\ externalModules = <<>>
  /\ assetPrefix = ""
  /\ assetsToEmbed = <<>>
  /\ result = None
  /\ err = ""
  /\ prevOut = NoOut
  /\ TraceIdle
  /\ PatchIdle
  /\ BootIdle

Next ==
  \/ FindServerDir
  \/ GenerateStubs
  \/ PatchRequireHook
  \/ DiscoverAssets
  \/ CopyExternalModules
  \/ ReadBuildContext
  \/ WriteAssets
  \/ WriteServerEntry
  \/ Rerun

Spec == Init /\ [][Next]_vars

TypeOK ==
  /\ pc \in {"findServerDir", "generateStubs", "patchRequireHook", "discoverAssets",
             "copyExternalModules", "readBuildContext", "writeAssets",
             "writeServerEntry", "done", "failed"}
  /\ run \in 1..MaxRuns

(***************************************************************************)
(* collectExternalModules one call of trace at a time: the active calls    *)
(* are a stack of [file, reqs], reqs being the require("...") matches of   *)
(* the file the call has still to visit.                                   *)
(***************************************************************************)
\* trace(file0) from its entry to the loop over the matches: the new deps
\* and, if the file was read, the frame of the call
traceEnter(f, standaloneDir, file0, ds) ==
  IF file0 \in Elems(ds) THEN [deps |-> ds, read |-> FALSE, frame |-> <<>>]
  ELSE LET fullPath0 == join(standaloneDir, <<"node_modules">> \o file0)
           isDir == existsSync(f, fullPath0) /\ isDirectory(f, fullPath0)
           deps1 == IF isDir /\ existsSync(f, join(fullPath0, <<"package.json">>))
                    THEN Add(ds, file0 \o <<"package.json">>)
                    ELSE ds
           file == IF isDir THEN file0 \o <<"index.js">> ELSE file0
           fullPath == join(standaloneDir, <<"node_modules">> \o file)
       IN IF ~existsSync(f, fullPath) THEN [deps |-> deps1, read |-> FALSE, frame |-> <<>>]
          ELSE [deps |-> Add(deps1, file), read |-> TRUE,
                frame |-> <<[file |-> file, reqs |-> requiresOf(f[fullPath])]>>]

\* a call trace(file0) made with `stack` as the active calls
TraceCall(file0, stack) ==
  LET r == traceEnter(fs, StandaloneDir, file0, deps) IN
  /\ deps' = r.deps
  /\ IF ~r.read
     THEN /\ tstack' = stack
          /\ UNCHANGED << reads, tpc >>
     ELSE /\ reads' = Append(reads, r.frame[1].file)
          /\ IF Len(stack) >= MaxStack
             THEN tpc' = "overflow" /\ tstack' = stack
             ELSE tpc' = tpc /\ tstack' = stack \o r.frame

\* the scan of the server chunks for the seeds
TraceStart ==
  /\ tpc = "off"
  /\ pc = "copyExternalModules"
  /\ LET chunksDir == join(serverDir, <<".next", "server", "chunks">>) IN
     seedsLeft' = IF ~existsSync(fs, chunksDir) THEN <<>>
                  ELSE ChunkSeeds(fs, walkDir(fs, chunksDir, chunksDir), <<>>)
  /\ tpc' = "tracing"
  /\ UNCHANGED << tstack, deps, reads >>
  /\ UNCHANGED << genVars, patchVars, bootVars >>

\* for (const seed of seeds) trace(seed)
TraceSeed ==
  /\ tpc = "tracing"
  /\ tstack = <<>>
  /\ seedsLeft # <<>>
  /\ seedsLeft' = Tail(seedsLeft)
  /\ TraceCall(Head(seedsLeft), <<>>)
  /\ UNCHANGED << genVars, patchVars, bootVars >>

\* one match of the loop over require("...") in the file of the top call
TraceRequire ==
  /\ tpc = "tracing"
  /\ tstack # <<>>
  /\ Last(tstack).reqs # <<>>
  /\ LET top == Last(tstack)
         resolved == resolveReq(top.file, Head(top.reqs).v)
         stack == Append(Front(tstack), [top EXCEPT !.reqs = Tail(top.reqs)])
     IN IF resolved = <<>>
        THEN tstack' = stack /\ UNCHANGED << deps, reads, tpc >>
        ELSE TraceCall(resolved, stack)
  /\ UNCHANGED seedsLeft
  /\ UNCHANGED << genVars, patchVars, bootVars >>

\* the loop of the top call is over: the call returns
TraceReturn ==
  /\ tpc = "tracing"
  /\ tstack # <<>>
  /\ Last(tstack).reqs = <<>>
  /\ tstack' = Front(tstack)
  /\ UNCHANGED << tpc, deps, seedsLeft, reads >>
  /\ UNCHANGED << genVars, patchVars, bootVars >>

\* return [...deps]
TraceDone ==
  /\ tpc = "tracing"
  /\ tstack = <<>>
  /\ seedsLeft = <<>>
  /\ tpc' = "returned"
  /\ UNCHANGED << tstack, deps, seedsLeft, reads >>
  /\ UNCHANGED << genVars, patchVars, bootVars >>

\* the modules node_modules/next/dist may hold, each present or not
TraceModules ==
  LET dist == join(nm, <<"next", "dist">>) IN
  [a |-> { <<join(dist, <<"a.js">>),
             <<Require(<<".", "b">>), Require(<<"react">>), Require(<<"fs">>),
               Require(<<"next", "dist", "c">>), Require(<<".", "gone">>),
               Require(<<".", "s.js">>)>> >> },
   b |-> { <<join(dist, <<"b.js">>), <<Require(<<".", "a.js">>)>> >> },
   s |-> { <<join(dist, <<"s.js">>), <<Require(<<".", "s">>)>> >> },
   react |-> { <<join(dist, <<"compiled", "react", "package.json">>),
                 Text("{\"name\":\"react\"}")>>,
               <<join(dist, <<"compiled", "react", "index.js">>),
                 <<Require(<<"..", "..", "b">>)>> >> },
   d |-> { <<join(dist, <<"d.js", "index.js">>), <<Require(<<"..", "d.js">>)>> >> },
   e |-> { <<join(dist, <<"e.js">>),
             <<Require(<<"..", "..", "..", "server.js">>)>> >> }]

\* what the server chunk may require, in the order of the text
TraceSeedLists ==
  LET nd(x) == <<"next", "dist">> \o x IN
  { << nd(<<"a.js">>), <<"react">> >>,
    << nd(<<"compiled", "react">>), nd(<<"compiled", "react", "index.js">>) >>,
    << nd(<<"compiled", "react", "index.js">>), nd(<<"compiled", "react">>) >>,
    << nd(<<"gone.js">>), nd(<<"b.js">>) >>,
    << nd(<<"s.js">>) >>,
    << nd(<<"d.js">>) >>,
    << nd(<<"e.js">>) >> }

TraceTree(present, seeds) ==
  MkFs({ <<join(StandaloneDir, <<"server.js">>), ServerJs(TRUE)>>,
         <<join(StandaloneDir, <<".next", "server", "chunks", "ssr.js">>),
           [i \in 1..Len(seeds) |-> Require(seeds[i])]>> }
       \cup UNION { TraceModules[m] : m \in present })

\* generateEntryPoint has reached the call of collectExternalModules
TraceInit ==
  /\ \E present \in SUBSET DOMAIN TraceModules, seeds \in TraceSeedLists :
       fs = TraceTree(present, seeds)
  /\ pc = "copyExternalModules"
  /\ run = 1
  /\ serverDir = StandaloneDir
  /\ staticFiles = <<>>
  /\ publicFiles = <<>>
  /\ runtimeFiles = <<>>
  /\ externalModules = <<>>
  /\ assetPrefix = ""
  /\ assetsToEmbed = <<>>
  /\ result = None
  /\ err = ""
  /\ prevOut = NoOut
  /\ TraceIdle
  /\ PatchIdle
  /\ BootIdle

TraceNext ==
  \/ TraceStart
  \/ TraceSeed
  \/ TraceRequire
  \/ TraceReturn
  \/ TraceDone

TraceSpec == TraceInit /\ [][TraceNext]_vars

TraceTypeOK ==
  /\ tpc \in {"off", "tracing", "returned", "overflow"}
  /\ Len(tstack) <= MaxStack

(***************************************************************************)
(* patchRequireHook called again and again on one tree.                    *)
(***************************************************************************)
hookPath == join(nm, <<"next", "dist", "server", "require-hook.js">>)

\* what require-hook.js may hold: any text around any number of copies of
\* the fragment or of its replacement
HookFrags == { Frag("text", <<"\"use strict\";">>, <<>>), ResolveTarget, ResolveReplacement }
HookContents == UNION { [1..n -> HookFrags] : n \in 0..MaxHookLen }

ApplyPatch ==
  /\ pc = "patchRequireHook"
  /\ Len(hookHist) <= MaxPatches
  /\ fs' = patchRequireHook(fs, StandaloneDir)
  /\ hookHist' = Append(hookHist, fs'[hookPath])
  /\ UNCHANGED << pc, run, serverDir, staticFiles, publicFiles, runtimeFiles,
                  externalModules, assetPrefix, assetsToEmbed, result, err, prevOut >>
  /\ UNCHANGED << traceVars, bootVars >>

PatchInit ==
  /\ \E content \in HookContents :
       /\ fs = MkFs({ <<join(StandaloneDir, <<"server.js">>), ServerJs(TRUE)>>,
                      <<join(nm, <<"next", "package.json">>), Text("{\"name\":\"next\"}")>>,
                      <<hookPath, content>> })
       /\ hookHist = <<content>>
  /\ pc = "patchRequireHook"
  /\ run = 1
  /\ serverDir = StandaloneDir
  /\ staticFiles = <<>>
  /\ publicFiles = <<>>
  /\ runtimeFiles = <<>>
  /\ externalModules = <<>>
  /\ assetPrefix = ""
  /\ assetsToEmbed = <<>>
  /\ result = None
  /\ err = ""
  /\ prevOut = NoOut
  /\ TraceIdle
  /\ BootIdle

PatchNext == ApplyPatch

PatchSpec == PatchInit /\ [][PatchNext]_vars

(***************************************************************************)
(* generateEntryPoint on trees whose traced modules require upwards.       *)
(***************************************************************************)
\* modules of next/dist: a and b require each other, x climbs above the
\* namespace (to node_modules/critters), e climbs above node_modules
CopyModules ==
  LET dist == join(nm, <<"next", "dist">>) IN
  [a |-> TraceModules.a,
   b |-> TraceModules.b,
   react |-> TraceModules.react,
   x |-> { <<join(dist, <<"x.js">>),
             <<Require(<<"..", "..", "critters", "index.js">>)>> >> },
   e |-> TraceModules.e]

CopySeedLists ==
  LET nd(y) == <<"next", "dist">> \o y IN
  { << nd(<<"a.js">>) >>,
    << nd(<<"compiled", "react">>), nd(<<"x.js">>) >>,
    << nd(<<"x.js">>) >>,
    << nd(<<"e.js">>) >>,
    << nd(<<"b.js">>), nd(<<"e.js">>) >> }

CopyInit ==
  /\ \E present \in SUBSET DOMAIN CopyModules, seeds \in CopySeedLists :
       fs = MkFs({ <<join(StandaloneDir, <<"server.js">>), ServerJs(TRUE)>>,
                   <<join(StandaloneDir, <<".next", "server", "chunks", "ssr.js">>),
                     [i \in 1..Len(seeds) |-> Require(seeds[i])]>>,
                   <<join(nm, <<"next", "package.json">>), Text("{\"name\":\"next\"}")>> }
                 \cup UNION { CopyModules[m] : m \in present }
                 \cup ContextFiles(""))
  /\ pc = "findServerDir"
  /\ run = 1
  /\ serverDir = None
  /\ staticFiles = <<>>
  /\ publicFiles = <<>>
  /\ runtimeFiles = <<>>
  /\ externalModules = <<>>
  /\ assetPrefix = ""
  /\ assetsToEmbed = <<>>
  /\ result = None
  /\ err = ""
  /\ prevOut = NoOut
  /\ TraceIdle
  /\ PatchIdle
  /\ BootIdle

CopyNext ==
  \/ FindServerDir
  \/ GenerateStubs
  \/ PatchRequireHook
  \/ DiscoverAssets
  \/ CopyExternalModules
  \/ ReadBuildContext
  \/ WriteAssets
  \/ WriteServerEntry

CopySpec == CopyInit /\ [][CopyNext]_vars

(***************************************************************************)
(* The compiled binary: bun build bundles server-entry.js with the files   *)
(* assets.generated.js imports, and the generated bootstrap runs in the    *)
(* directory of the executable.                                            *)
(***************************************************************************)
\* toVarName is a function of the urlPath, so two import lines with one
\* urlPath declare one identifier twice and the module does not build
BuildFails(f, dir) ==
  LET text == f[assetsPath(dir)] IN
  \E i, j \in 1..Len(text) :
     i < j /\ text[i].k = "import" /\ text[j].k = "import" /\ text[i].v = text[j].v

\* what the binary holds: the extraction list of server-entry.js and, for
\* each entry of new Map([...]), the content of the file its import names
compile(f, dir) ==
  LET text == f[assetsPath(dir)]
      entry == f[entryPath(dir)]
      importOf(url) == CHOOSE fr \in Elems(text) : fr.k = "import" /\ fr.v = url
      maps == SelectSeq(text, LAMBDA fr : fr.k = "map")
  IN [extractions |-> SelectSeq(entry, LAMBDA fr : fr.k = "extract"),
      assetMap |-> [i \in 1..Len(maps) |->
                      [key |-> maps[i].v,
                       file |-> f[join(dir, Tail(importOf(maps[i].v).w))]]]]

baseDir == <<>>

Undefined == <<Frag("undefined", <<>>, <<>>)>>

\* Map.prototype.get on a Map built from a list of entries: the last entry
\* of a key is the one the Map keeps
assetMapGet(assetMap, urlPath) ==
  LET hits == { i \in 1..Len(assetMap) : assetMap[i].key = urlPath } IN
  IF hits = {} THEN Undefined
  ELSE assetMap[CHOOSE i \in hits : \A j \in hits : j <= i].file

\* mkdirSync(dir, { recursive: true }) throws when dir or one of its
\* ancestors is a regular file
CanMkdir(d, dir) == \A i \in 0..Len(dir) : ~IsFile(d, SubSeq(dir, 1, i))

\* one pass of the loop body of extractAssets without the existsSync test
extractVisit_noExists(d, b, i) ==
  LET fullPath == join(baseDir, b.extractions[i].w)
      embedded == assetMapGet(b.assetMap, b.extractions[i].v)
  IN IF ~CanMkdir(d, Front(fullPath)) THEN "throw"
     ELSE IF embedded = Undefined THEN "continue"
     ELSE "write"

\* one pass of the loop body of extractAssets, up to the await
extractVisit(d, b, i) ==
  LET fullPath == join(baseDir, b.extractions[i].w)
      embedded == assetMapGet(b.assetMap, b.extractions[i].v)
  IN IF existsSync(d, fullPath) THEN "continue"
     ELSE IF ~CanMkdir(d, Front(fullPath)) THEN "throw"
     ELSE IF embedded = Undefined THEN "continue"
     ELSE "write"

\* the directories the binary may be started in: empty, holding what an
\* earlier start extracted (all of it, or the first or last entry only), or
\* with a regular file where the last entry needs a directory
StaleFile == Text("left by an earlier start")
ExtractionPaths(b) == { join(baseDir, b.extractions[i].w) : i \in 1..Len(b.extractions) }
BaseDirs(b) ==
  LET n == Len(b.extractions)
      at(i) == join(baseDir, b.extractions[i].w)
      stale(P) == [q \in P |-> StaleFile]
  IN { stale({}), stale(ExtractionPaths(b)) }
     \cup (IF n = 0 THEN {}
           ELSE { stale({at(1)}), stale({at(n)}), stale({Front(at(n))}) })

\* execFileSync("bun", ["build", entryPoint, "--compile", ...])
Compile ==
  /\ pc = "done"
  /\ bpc = "off"
  /\ IF BuildFails(fs, serverDir)
     THEN bpc' = "buildFailed" /\ UNCHANGED bin
     ELSE bpc' = "built" /\ bin' = compile(fs, serverDir)
  /\ UNCHANGED << disk, disk0, idx, failure, exitCode, logged, started >>
  /\ UNCHANGED << genVars, traceVars, patchVars >>

\* the executable is started: the top-level statements up to the call of
\* extractAssets
Launch ==
  /\ bpc = "built"
  /\ \E d \in BaseDirs(bin) : disk' = d /\ disk0' = d
  /\ idx' = 1
  /\ bpc' = "extracting"
  /\ UNCHANGED << bin, failure, exitCode, logged, started >>
  /\ UNCHANGED << genVars, traceVars, patchVars >>

\* for (const [urlPath, diskPath] of extractions) { ... }, up to the await
ExtractVisit ==
  /\ bpc = "extracting"
  /\ idx <= Len(bin.extractions)
  /\ LET step == extractVisit(disk, bin, idx) IN
     /\ idx' = IF step = "continue" THEN idx + 1 ELSE idx
     /\ bpc' = IF step = "continue" THEN "extracting"
               ELSE IF step = "write" THEN "writing" ELSE "rejected"
     /\ failure' = IF step = "throw" THEN "mkdirSync" ELSE failure
  /\ UNCHANGED << bin, disk, disk0, exitCode, logged, started >>
  /\ UNCHANGED << genVars, traceVars, patchVars >>

\* await Bun.write(fullPath, Bun.file(embedded)) settles
WriteSettles ==
  /\ bpc = "writing"
  /\ \E ok \in BOOLEAN :
       IF ok
       THEN /\ disk' = writeFileSync(disk, join(baseDir, bin.extractions[idx].w),
                                     assetMapGet(bin.assetMap, bin.extractions[idx].v))
            /\ idx' = idx + 1
            /\ bpc' = "extracting"
            /\ UNCHANGED failure
       ELSE /\ failure' = "Bun.write"
            /\ bpc' = "rejected"
            /\ UNCHANGED << disk, idx >>
  /\ UNCHANGED << bin, disk0, exitCode, logged, started >>
  /\ UNCHANGED << genVars, traceVars, patchVars >>

\* the callback run without waiting for the promise of extractAssets()
ExtractAssetsFulfilled_notAwaited(b, i, extractions) == b \in {"extracting", "writing"}

\* the promise of extractAssets() is fulfilled when the loop has left
ExtractAssetsFulfilled(b, i, extractions) == b = "extracting" /\ i > Len(extractions)

\* .then(() => { require("next"); ...; return startServer({...}); })
ThenStartServer ==
  /\ ExtractAssetsFulfilled(bpc, idx, bin.extractions)
  /\ \E outcome \in {"called", "require throws", "startServer throws"} :
       IF outcome = "require throws"
       THEN failure' = "require" /\ bpc' = "rejected" /\ UNCHANGED started
       ELSE IF outcome = "startServer throws"
       THEN failure' = "startServer" /\ bpc' = "rejected" /\ started' = TRUE
       ELSE bpc' = "starting" /\ started' = TRUE /\ UNCHANGED failure
  /\ UNCHANGED << bin, disk, disk0, idx, exitCode, logged >>
  /\ UNCHANGED << genVars, traceVars, patchVars >>

\* the promise startServer returned settles
StartServerSettles ==
  /\ bpc = "starting"
  /\ \E ok \in BOOLEAN :
       IF ok THEN bpc' = "serving" /\ UNCHANGED failure
       ELSE failure' = "startServer" /\ bpc' = "rejected"
  /\ UNCHANGED << bin, disk, disk0, idx, exitCode, logged, started >>
  /\ UNCHANGED << genVars, traceVars, patchVars >>

\* .catch((err) => { console.error(err); process.exit(1); })
exitStatus == 1

\* a handler that logs and lets the process live
Catch_logOnly ==
  /\ bpc = "rejected"
  /\ logged' = TRUE
  /\ bpc' = "serving"
  /\ UNCHANGED << bin, disk, disk0, idx, failure, exitCode, started >>
  /\ UNCHANGED << genVars, traceVars, patchVars >>

Catch ==
  /\ bpc = "rejected"
  /\ logged' = TRUE
  /\ exitCode' = exitStatus
  /\ bpc' = "exited"
  /\ UNCHANGED << bin, disk, disk0, idx, failure, started >>
  /\ UNCHANGED << genVars, traceVars, patchVars >>

\* the builds the binary is made from: flat or nested, with the literal and
\* the build context present
BootInit ==
  /\ \E L \in { {<<>>}, {Chain(1)} }, graph \in {"none", "cycle"},
        ctx \in Contexts \ {"absent"}, st \in StaticSets, pu \in PublicSets :
       fs = Tree(L, TRUE, graph, "plain", ctx, st, pu)
  /\ pc = "findServerDir"
  /\ run = 1
  /\ serverDir = None
  /\ staticFiles = <<>>
  /\ publicFiles = <<>>
  /\ runtimeFiles = <<>>
  /\ externalModules = <<>>
  /\ assetPrefix = ""
  /\ assetsToEmbed = <<>>
  /\ result = None
  /\ err = ""
  /\ prevOut = NoOut
  /\ TraceIdle
  /\ PatchIdle
  /\ BootIdle

BootNext ==
  \/ FindServerDir
  \/ GenerateStubs
  \/ PatchRequireHook
  \/ DiscoverAssets
  \/ CopyExternalModules
  \/ ReadBuildContext
  \/ WriteAssets
  \/ WriteServerEntry
  \/ Compile
  \/ Launch
  \/ ExtractVisit
  \/ WriteSettles
  \/ ThenStartServer
  \/ StartServerSettles
  \/ Catch

BootSpec == BootInit /\ [][BootNext]_vars

\* a rejected promise has its handler run: the callback of .catch is a
\* microtask the runtime does not leave waiting
BootFairSpec == BootSpec /\ WF_vars(Catch)

BootTypeOK ==
  /\ bpc \in {"off", "buildFailed", "built", "extracting", "writing", "starting",
              "serving", "rejected", "exited"}
  /\ failure \in {"none", "mkdirSync", "Bun.write", "require", "startServer"}
  /\ exitCode \in {-1, exitStatus}

(***************************************************************************)
(* Vocabulary of the properties.                                           *)
(***************************************************************************)
Finished == pc \in {"done", "failed"}

\* the directories that hold a server.js
ServerJsDirs == { Front(p) : p \in { q \in DOMAIN fs : Last(q) = "server.js" } }

\* D lies strictly below the standalone root, not under a node_modules
IsNestedAppDir(D) ==
  /\ IsProperPrefix(StandaloneDir, D)
  /\ \A i \in 1..Len(D) : D[i] # "node_modules"

OutputFiles == { p \in DOMAIN fs : Last(p) \in {"assets.generated.js", "server-entry.js"} }

\* the tree is one generation is meant to succeed on, whatever the optional
\* inputs: a server root can be resolved and its server.js has the literal
HasConfigLiteral(dir) == configMatch(fs[join(dir, <<"server.js">>)]) # <<>>

ErrNoServer == "Could not find server.js in standalone output"
ErrNoConfig == "Could not extract nextConfig from standalone server.js"
ErrNoCtx == "ENOENT: bun-compile-ctx.json"

\* the invocation is past the copy of the external modules
PastCopy ==
  \/ pc \in {"readBuildContext", "writeAssets", "writeServerEntry", "done"}
  \/ pc = "failed" /\ err \in {ErrNoCtx, ErrNoConfig}

\* assets.generated.js has been written by this invocation
RegistryWritten ==
  \/ pc \in {"writeServerEntry", "done"}
  \/ pc = "failed" /\ err = ErrNoConfig

FilesUnder(dir) == { p \in DOMAIN fs : IsProperPrefix(dir, p) }

\* the import paths of the registry
RegistryImports ==
  LET text == fs[assetsPath(serverDir)] IN
  { text[i].w : i \in { j \in 1..Len(text) : text[j].k = "import" } }

ImportOf(p) == <<".">> \o relative(serverDir, p)

(***************************************************************************)
(* C1: in a tree whose only server.js is in one nested directory D (no    *)
(* node_modules on its path), generateEntryPoint returns D, writes        *)
(* assets.generated.js and server-entry.js in D and neither at the        *)
(* standalone root.  Stated for the trees whose server.js carries the     *)
(* nextConfig literal.                                                     *)
(***************************************************************************)
C1_NestedReturnsAndWrites ==
  \A D \in ServerJsDirs :
    (ServerJsDirs = {D} /\ IsNestedAppDir(D) /\ HasConfigLiteral(D) /\ Finished)
      => /\ pc = "done"
         /\ result = D
         /\ IsFile(fs, assetsPath(D))
         /\ IsFile(fs, entryPath(D))
         /\ ~existsSync(fs, assetsPath(StandaloneDir))
         /\ ~existsSync(fs, entryPath(StandaloneDir))

(***************************************************************************)
(* C2: when server.js is directly under the standalone root, the server   *)
(* root findServerDir resolves, and the value generateEntryPoint returns, *)
(* is the standalone root, whatever other server.js exist below it.       *)
(***************************************************************************)
C2_FlatResolvesRoot ==
  IsFile(fs, join(StandaloneDir, <<"server.js">>))
    => /\ pc # "findServerDir" => serverDir = StandaloneDir
       /\ err # ErrNoServer
       /\ pc = "done" => result = StandaloneDir

C2_Witness ==
  /\ pc = "done"
  /\ result = StandaloneDir
  /\ \E D \in ServerJsDirs : IsNestedAppDir(D)

(***************************************************************************)
(* C3: with no server.js anywhere, generateEntryPoint fails with the      *)
(* server-not-found error without going any further, and no               *)
(* assets.generated.js or server-entry.js exists in any directory.        *)
(***************************************************************************)
C3_NoServerFails ==
  ServerJsDirs = {}
    => /\ pc \in {"findServerDir", "failed"}
       /\ pc = "failed" => err = ErrNoServer
       /\ OutputFiles = {}

C3_Witness ==
  /\ ServerJsDirs = {}
  /\ pc = "failed"
  /\ err = ErrNoServer

(***************************************************************************)
(* C4: generation is idempotent: after a run, deleting the two output     *)
(* files and running again gives the same assets.generated.js and         *)
(* server-entry.js.                                                        *)
(***************************************************************************)
C4_Idempotent ==
  (run > 1 /\ pc = "done")
    => /\ fs[assetsPath(serverDir)] = prevOut.assets
       /\ fs[entryPath(serverDir)] = prevOut.entry

(***************************************************************************)
(* C5: the build-context file is optional: without it generateEntryPoint  *)
(* still completes and writes both output files, the static assets        *)
(* embedded.                                                               *)
(***************************************************************************)
C5_ContextOptional ==
  \A D \in ServerJsDirs :
    (~existsSync(fs, ctxPath) /\ Finished /\ D = findServerDir(fs, StandaloneDir)
       /\ HasConfigLiteral(D))
      => /\ pc = "done"
         /\ IsFile(fs, assetsPath(D))
         /\ IsFile(fs, entryPath(D))
         /\ \A p \in FilesUnder(join(DistDir, <<"static">>)) :
              <<".">> \o relative(D, p) \in RegistryImports

(***************************************************************************)
(* C6: with a non-empty assetPrefix in the build context, the registry    *)
(* has no entry for a file under <distDir>/static and has an entry for    *)
(* every file under <projectDir>/public and every file under              *)
(* <serverRoot>/.next, the mirrored external modules included; with an    *)
(* empty assetPrefix every static file has an entry too.                  *)
(***************************************************************************)
C6_PrefixSkipsStatic ==
  RegistryWritten =>
    LET prefix == fs[ctxPath][1].v[1]
        static == FilesUnder(join(DistDir, <<"static">>))
        public == FilesUnder(join(ProjectDir, <<"public">>))
        runtime == FilesUnder(join(serverDir, <<".next">>))
    IN /\ \A p \in public \cup runtime : ImportOf(p) \in RegistryImports
       /\ prefix # "" => \A p \in static : ImportOf(p) \notin RegistryImports
       /\ prefix = "" => \A p \in static : ImportOf(p) \in RegistryImports

C6_Witness ==
  /\ pc = "done"
  /\ fs[ctxPath][1].v[1] # ""
  /\ FilesUnder(join(DistDir, <<"static">>)) # {}
  /\ FilesUnder(join(ProjectDir, <<"public">>)) # {}
  /\ FilesUnder(join(serverDir, <<".next", "__external">>)) # {}

(***************************************************************************)
(* C7: the urlPath values of the embedded assets are pairwise distinct.   *)
(***************************************************************************)
C7_UrlPathsDistinct ==
  \A i, j \in 1..Len(assetsToEmbed) :
    i # j => assetsToEmbed[i].urlPath # assetsToEmbed[j].urlPath

(***************************************************************************)
(* C8: generateStubs never overwrites an existing file: a file that is at *)
(* <location>/<subpath> of a stub, for any install location of the        *)
(* package (direct or under node_modules/.bun), has the same content      *)
(* after generateStubs as before.                                          *)
(***************************************************************************)
IsStubTarget(p) ==
  \E i \in 1..Len(stubs) :
    LET tail == <<"node_modules">> \o stubs[i].pkg \o stubs[i].subpath IN
    /\ IsPrefix(nm, p)
    /\ Len(p) >= Len(tail)
    /\ SubSeq(p, Len(p) - Len(tail) + 1, Len(p)) = tail

StubContents == { stubs[i].content : i \in 1..Len(stubs) }

C8_StubsKeepExisting ==
  [][pc = "generateStubs" =>
       \A p \in DOMAIN fs : IsStubTarget(p) => (p \in DOMAIN fs' /\ fs'[p] = fs[p])]_vars

C8_Witness ==
  /\ pc = "patchRequireHook"
  /\ \E p \in DOMAIN fs : IsStubTarget(p) /\ fs[p] \notin StubContents
  /\ \E p \in DOMAIN fs : IsStubTarget(p) /\ fs[p] \in StubContents
  /\ \E p \in DOMAIN fs :
       IsStubTarget(p) /\ IsPrefix(join(nm, <<".bun">>), p) /\ fs[p] \notin StubContents

(***************************************************************************)
(* C9: when a .js chunk under <serverRoot>/.next/server/chunks contains   *)
(* require("next/dist/<path>") and that file exists under                 *)
(* <standaloneRoot>/node_modules, then once the external modules are      *)
(* copied the closure contains the file, a copy of it is at               *)
(* <serverRoot>/.next/__external/next/dist/<path>, and nothing is under   *)
(* <standaloneRoot>/.next/__external when the two roots differ.           *)
(***************************************************************************)
\* the next/dist specifiers the .js chunks require whose file exists
ChunkReferences ==
  LET chunks == { c \in FilesUnder(join(serverDir, <<".next", "server", "chunks">>)) :
                    endsWithJs(Last(c)) }
  IN { s \in UNION { { fs[c][i].v : i \in { j \in 1..Len(fs[c]) : fs[c][j].k = "require" } }
                     : c \in chunks } :
         IsNextDistSpec(s) /\ IsFile(fs, nm \o s) }

C9_ExternalsMirrored ==
  (PastCopy /\ ChunkReferences # {}) =>
    /\ externalModules # <<>>
    /\ \A s \in ChunkReferences :
         /\ s \in Elems(externalModules)
         /\ IsFile(fs, join(serverDir, <<".next", "__external">>) \o s)
         /\ fs[join(serverDir, <<".next", "__external">>) \o s] = fs[nm \o s]
    /\ serverDir # StandaloneDir
         => ~existsSync(fs, join(StandaloneDir, <<".next", "__external">>))

C9_Witness ==
  /\ PastCopy
  /\ ChunkReferences # {}
  /\ serverDir # StandaloneDir
  /\ IsFile(fs, join(serverDir, <<".next", "__external", "next", "dist", "a.js">>))

(***************************************************************************)
(* C10: when server.js has no nextConfig literal, generateEntryPoint      *)
(* fails with the configuration-extraction error and has written neither  *)
(* server-entry.js nor assets.generated.js.                                *)
(***************************************************************************)
C10_NoPartialOutput ==
  \A D \in ServerJsDirs :
    (D = findServerDir(fs, StandaloneDir) /\ ~HasConfigLiteral(D)
       /\ existsSync(fs, ctxPath) /\ Finished)
      => /\ pc = "failed"
         /\ err = ErrNoConfig
         /\ ~existsSync(fs, entryPath(D))
         /\ ~existsSync(fs, assetsPath(D))

\* the fragments of assets.generated.js of one kind
RegistryFrags(kind) ==
  LET text == fs[assetsPath(serverDir)] IN
  { text[i] : i \in { j \in 1..Len(text) : text[j].k = kind } }

\* the segments between the standalone root and the server root
NestingSegments == Elems(relative(StandaloneDir, serverDir))

(***************************************************************************)
(* C11: in a nested layout every file found under <serverRoot>/.next      *)
(* (the mirror .next/__external aside) has a registry line whose urlPath   *)
(* is __runtime/.next/<rel> and whose import path is ./.next/<rel>, and no *)
(* urlPath or import path of the registry holds a nesting segment.         *)
(***************************************************************************)
C11_RuntimeRelativeToServerRoot ==
  (RegistryWritten /\ IsNestedAppDir(serverDir)) =>
    LET nextDir == join(serverDir, <<".next">>)
        walked == { p \in FilesUnder(nextDir) :
                      ~IsPrefix(join(nextDir, <<"__external">>), p) }
    IN /\ \A p \in walked :
            LET rel == SubSeq(p, Len(nextDir) + 1, Len(p)) IN
            \E fr \in RegistryFrags("import") :
               /\ fr.v = <<"__runtime", ".next">> \o rel
               /\ fr.w = <<".", ".next">> \o rel
       /\ \A fr \in RegistryFrags("import") :
            /\ Elems(fr.v) \cap NestingSegments = {}
            /\ fr.v[1] = "__runtime" =>
                 /\ SubSeq(fr.w, 1, 2) = <<".", ".next">>
                 /\ Elems(fr.w) \cap NestingSegments = {}

C11_Witness ==
  /\ pc = "done"
  /\ Len(serverDir) = Len(StandaloneDir) + 2
  /\ IsNestedAppDir(serverDir)
  /\ IsFile(fs, join(serverDir, <<".next", "server", "chunks", "ssr.js">>))
  /\ \E fr \in RegistryFrags("import") :
       fr.w = <<".", ".next", "server", "chunks", "ssr.js">>

(***************************************************************************)
(* C12: whatever the shape of node_modules (a package absent, a package    *)
(* path that is a regular file, a missing parent of the stub, a missing    *)
(* require-hook.js or one without the fragment), generateStubs and         *)
(* patchRequireHook return normally: generation never fails in them.       *)
(***************************************************************************)
C12_StubsAndPatchNeverRaise ==
  /\ pc = "failed" => err \in {ErrNoServer, ErrNoCtx, ErrNoConfig}
  /\ err # ErrNotDir

\* the bootstrap has been started
BootRunning == bpc \in {"extracting", "writing", "starting", "serving", "rejected", "exited"}

\* where entry i of the extraction list goes, and the build-time content of
\* the asset it was made from
EntryPath(i) == join(baseDir, bin.extractions[i].w)
EmbeddedAt(i) == fs[assetsToEmbed[i].absolutePath]

(***************************************************************************)
(* C13: extractAssets leaves an entry of the extraction list having written *)
(* the embedded asset to its path if nothing existed there when the entry  *)
(* was visited, and having written nothing if something did; no file of    *)
(* the directory is ever overwritten or removed; once the loop has left,   *)
(* every extraction path exists.                                           *)
(***************************************************************************)
C13_ExtractsExactlyMissing ==
  /\ [][ (bpc \in {"extracting", "writing"} /\ idx' = idx + 1) =>
           IF existsSync(disk, EntryPath(idx))
           THEN disk' = disk
           ELSE disk' = writeFileSync(disk, EntryPath(idx), EmbeddedAt(idx)) ]_vars
  /\ [][ BootRunning =>
           \A p \in DOMAIN disk : p \in DOMAIN disk' /\ disk'[p] = disk[p] ]_vars
  /\ [](ExtractAssetsFulfilled(bpc, idx, bin.extractions) =>
           \A i \in 1..Len(bin.extractions) : existsSync(disk, EntryPath(i)))

C13_Witness ==
  /\ bpc = "serving"
  /\ \E i, j \in 1..Len(bin.extractions) :
       /\ EntryPath(i) \in DOMAIN disk0
       /\ disk[EntryPath(i)] = StaleFile
       /\ EntryPath(j) \notin DOMAIN disk0
       /\ disk[EntryPath(j)] = EmbeddedAt(j)
       /\ EmbeddedAt(j) # StaleFile

\* the two renderings of the tracer return the same list
TraceAgrees ==
  tpc = "returned" => deps = collectExternalModules(fs, StandaloneDir, serverDir)

(***************************************************************************)
(* C14: on every tree, cyclic ones included (self-requires, mutual         *)
(* requires, requires reaching a directory that resolves to its index.js), *)
(* the tracing terminates, and trace reads the content of each resolved    *)
(* file at most once.                                                      *)
(***************************************************************************)
C14_TraceTerminatesReadingOnce ==
  /\ tpc # "overflow"
  /\ \A i, j \in 1..Len(reads) : i < j => reads[i] # reads[j]

\* the seeds the server chunks name
SeedsOf(f) ==
  LET text == f[join(StandaloneDir, <<".next", "server", "chunks", "ssr.js">>)] IN
  { text[i].v : i \in { j \in 1..Len(text) :
                          text[j].k = "require" /\ IsNextDistSpec(text[j].v) } }

\* the file a traced specifier stands for, and the specifiers it brings in
NamedFile(f, spec) ==
  LET full == join(nm, spec) IN
  IF isDirectory(f, full) THEN spec \o <<"index.js">> ELSE spec

MembersOf(f, spec) ==
  LET full == join(nm, spec) IN
  IF isDirectory(f, full)
  THEN { m \in { spec \o <<"package.json">>, spec \o <<"index.js">> } :
           IsFile(f, join(nm, m)) }
  ELSE IF IsFile(f, full) THEN {spec} ELSE {}

\* the specifiers required, relatively or in the next/ namespace, by the
\* file a specifier stands for
RequiredBy(f, spec) ==
  LET file == NamedFile(f, spec)
      full == join(nm, file)
  IN IF ~IsFile(f, full) THEN {}
     ELSE { resolveReq(file, f[full][i].v) :
              i \in { j \in 1..Len(f[full]) :
                        /\ f[full][j].k = "require"
                        /\ \/ f[full][j].v[1] \in {".", ".."}
                           \/ f[full][j].v[1] = "next" /\ Len(f[full][j].v) >= 2 } }

RECURSIVE ReachableFrom(_, _)
ReachableFrom(f, S) ==
  LET S2 == S \cup UNION { RequiredBy(f, x) : x \in S } IN
  IF S2 = S THEN S ELSE ReachableFrom(f, S2)

Closure(f) == UNION { MembersOf(f, x) : x \in ReachableFrom(f, SeedsOf(f)) }

(***************************************************************************)
(* C15: the list collectExternalModules returns holds exactly the          *)
(* specifiers of the existing files reached from the seeds through         *)
(* relative or next/ requires (a seed directory giving its index.js and    *)
(* package.json), and each of them names a file under                      *)
(* <standaloneRoot>/node_modules.                                          *)
(***************************************************************************)
C15_ExactlyReachable ==
  tpc = "returned" =>
    /\ Elems(deps) = Closure(fs)
    /\ \A m \in Elems(deps) :
         /\ IsFile(fs, join(nm, m))
         /\ IsProperPrefix(nm, join(nm, m))

\* the same without the demand that the files lie under node_modules
C15_ReachableAnywhere ==
  tpc = "returned" =>
    /\ Elems(deps) = Closure(fs)
    /\ \A m \in Elems(deps) : IsFile(fs, join(nm, m))

(***************************************************************************)
(* C16: whatever require-hook.js holds, a second call of patchRequireHook  *)
(* leaves the file as the first call left it, and a file without the       *)
(* fragment is left as it was.                                             *)
(***************************************************************************)
C16_PatchIdempotent ==
  /\ Len(hookHist) >= 3 => hookHist[3] = hookHist[2]
  /\ (Len(hookHist) >= 2 /\ ~includes(hookHist[1], ResolveTarget)) =>
       hookHist[2] = hookHist[1]

\* the same for the files that hold the fragment at most once
C16_IdempotentOnSingle ==
  LET copies == { i \in 1..Len(hookHist[1]) : hookHist[1][i] = ResolveTarget } IN
  /\ (Len(hookHist) >= 3 /\ Cardinality(copies) <= 1) => hookHist[3] = hookHist[2]
  /\ (Len(hookHist) >= 2 /\ copies = {}) => hookHist[2] = hookHist[1]

\* the install locations of a package in a tree: node_modules/<pkg> and
\* every node_modules/.bun/<flattened>@<version>/node_modules/<pkg>
FlatName(pkg) == IF Len(pkg) = 2 THEN pkg[1] \o "+" \o pkg[2] ELSE pkg[1]

InstallLocations(f, pkg) ==
  { loc \in { nm \o pkg }
            \cup { nm \o <<".bun", FlatName(pkg) \o "@" \o v, "node_modules">> \o pkg :
                     v \in VersionTails } :
      existsSync(f, loc) }

(***************************************************************************)
(* C17: when generateStubs returns, every stub entry has a file at         *)
(* <location>/<subpath> for every install location its package had, and a  *)
(* package that had none has the placeholder at node_modules/<pkg>/        *)
(* <subpath>; in a second run generateStubs writes nothing.                *)
(***************************************************************************)
C17_StubsAtEveryLocation ==
  [][ (pc = "generateStubs" /\ pc' = "patchRequireHook") =>
        /\ \A i \in 1..Len(stubs) :
             LET locs == InstallLocations(fs, stubs[i].pkg)
                 default == nm \o stubs[i].pkg \o stubs[i].subpath
             IN /\ \A loc \in locs : IsFile(fs', loc \o stubs[i].subpath)
                /\ locs = {} => IsFile(fs', default) /\ fs'[default] = stubs[i].content
        /\ run > 1 => fs' = fs ]_vars

C17_Witness ==
  /\ pc = "patchRequireHook"
  /\ run = 2
  /\ ~existsSync(fs, nm \o <<"critters">>)
  /\ IsFile(fs, nm \o <<".bun", "critters@0.0.20", "node_modules", "critters", "index.js">>)
  /\ IsFile(fs, nm \o <<".bun", "next@16.0.0", "node_modules", "next", "dist", "server",
                        "lib", "router-utils", "setup-dev-bundler.js">>)
  /\ fs[nm \o <<"next", "dist", "server", "dev", "next-dev-server.js">>] = stubs[1].content
  /\ ~existsSync(fs, nm \o <<"@opentelemetry">>)

\* the extraction list of server-entry.js
EntryExtractions ==
  SelectSeq(fs[entryPath(serverDir)], LAMBDA fr : fr.k = "extract")

StartsWith(path, prefix) == Len(path) > Len(prefix) /\ SubSeq(path, 1, Len(prefix)) = prefix

(***************************************************************************)
(* C18: the extraction list of server-entry.js has one pair per embedded   *)
(* asset, in order; a urlPath starting with __runtime/ is paired with the  *)
(* urlPath less that prefix (.next/node_modules/<mod> for a mirrored       *)
(* module), one starting with /_next/static/ with .next/static/            *)
(* <relativePath>, any other with public/<relativePath>.                   *)
(***************************************************************************)
C18_ExtractionPathByUrlPath ==
  pc = "done" =>
    /\ Len(EntryExtractions) = Len(assetsToEmbed)
    /\ \A i \in 1..Len(assetsToEmbed) :
         LET a == assetsToEmbed[i]
             url == EntryExtractions[i].v
             path == EntryExtractions[i].w
         IN /\ url = a.urlPath
            /\ StartsWith(url, <<"__runtime">>) => <<"__runtime">> \o path = url
            /\ (~StartsWith(url, <<"__runtime">>) /\ StartsWith(url, <<"", "_next", "static">>))
                 => path = <<".next", "static">> \o a.relativePath
            /\ (~StartsWith(url, <<"__runtime">>) /\ ~StartsWith(url, <<"", "_next", "static">>))
                 => path = <<"public">> \o a.relativePath
    /\ \A m \in Elems(<< <<"next", "package.json">> >> \o externalModules) :
         IsFile(fs, join(nm, m)) =>
           \E i \in 1..Len(EntryExtractions) :
              /\ EntryExtractions[i].v = <<"__runtime", ".next", "node_modules">> \o m
              /\ EntryExtractions[i].w = <<".next", "node_modules">> \o m

C18_Witness ==
  /\ pc = "done"
  /\ \E i, j, k \in 1..Len(EntryExtractions) :
       /\ EntryExtractions[i].w = <<".next", "node_modules", "next", "dist", "a.js">>
       /\ EntryExtractions[j].w = <<".next", "static", "a.js">>
       /\ EntryExtractions[k].w = <<"public", "favicon.ico">>

(***************************************************************************)
(* C19: the extraction loop goes through the list one entry at a time, in  *)
(* order, and leaves an entry it writes only when the write has settled;   *)
(* startServer is called only when the loop has left the last entry, never *)
(* while a write is pending and never after an extraction has failed.      *)
(***************************************************************************)
C19_ExtractThenStart ==
  /\ [](started =>
          /\ idx = Len(bin.extractions) + 1
          /\ bpc # "writing"
          /\ failure \notin {"mkdirSync", "Bun.write"})
  /\ [][ BootRunning =>
           /\ idx' \in {idx, idx + 1}
           /\ disk' # disk =>
                /\ bpc = "writing"
                /\ idx' = idx + 1
                /\ DOMAIN disk' = DOMAIN disk \cup {EntryPath(idx)}
           /\ (bpc = "writing" /\ idx' # idx) => IsFile(disk', EntryPath(idx)) ]_vars

C19_Witness ==
  /\ started
  /\ bpc = "serving"
  /\ Len(bin.extractions) >= 3
  /\ \E i \in 1..Len(bin.extractions) : EntryPath(i) \notin DOMAIN disk0

(***************************************************************************)
(* C20: once an extraction, the loading of next or startServer has failed, *)
(* the process does not go on serving: the failure is logged and the       *)
(* process exits with status 1, and no exit has another status.            *)
(***************************************************************************)
C20_FailureExitsOne ==
  /\ [](/\ failure # "none" => bpc \in {"rejected", "exited"}
        /\ bpc = "exited" => failure # "none" /\ logged /\ exitCode = 1
        /\ exitCode \in {-1, 1})
  /\ (failure # "none") ~> (bpc = "exited" /\ logged /\ exitCode = 1)

C20_Witness ==
  /\ bpc = "exited"
  /\ exitCode = 1
  /\ failure = "Bun.write"
  /\ idx > 1

(***************************************************************************)
(* C21: whatever the traced modules require, '..' above the namespace or   *)
(* above node_modules included, the copy of the external modules reads     *)
(* only files inside <standaloneRoot>/node_modules and writes only inside  *)
(* <serverRoot>/.next/__external.                                          *)
(***************************************************************************)
C21_CopyStaysInside ==
  [][ pc = "copyExternalModules" =>
        LET externalDir == join(serverDir, <<".next", "__external">>) IN
        /\ \A m \in Elems(externalModules') :
             IsProperPrefix(nm, join(StandaloneDir, <<"node_modules">> \o m))
        /\ \A p \in DOMAIN fs' :
             (p \notin DOMAIN fs \/ fs'[p] # fs[p]) => IsProperPrefix(externalDir, p) ]_vars

\* the same on the trees where no module climbs above node_modules
C21_InsideWithoutEscape ==
  [][ (pc = "copyExternalModules"
       /\ ~IsFile(fs, join(nm, <<"next", "dist", "e.js">>))) =>
        LET externalDir == join(serverDir, <<".next", "__external">>) IN
        /\ \A m \in Elems(externalModules') :
             IsProperPrefix(nm, join(StandaloneDir, <<"node_modules">> \o m))
        /\ \A p \in DOMAIN fs' :
             (p \notin DOMAIN fs \/ fs'[p] # fs[p]) => IsProperPrefix(externalDir, p) ]_vars

(***************************************************************************)
(* C22: the extraction path of an embedded asset follows the directory it  *)
(* was found in, whatever its relative path: a file of <projectDir>/public *)
(* is paired with public/<relativePath>, a file of <distDir>/static with   *)
(* .next/static/<relativePath>.                                            *)
(***************************************************************************)
C22_ExtractionPathByOrigin ==
  pc = "done" =>
    LET publicDir == join(ProjectDir, <<"public">>)
        staticDir == join(DistDir, <<"static">>)
    IN \A i \in 1..Len(assetsToEmbed) :
         LET abs == assetsToEmbed[i].absolutePath IN
         /\ IsProperPrefix(publicDir, abs) =>
              EntryExtractions[i].w = <<"public">> \o relative(publicDir, abs)
         /\ IsProperPrefix(staticDir, abs) =>
              EntryExtractions[i].w = <<".next", "static">> \o relative(staticDir, abs)

\* the same for the public files that are not below public/_next/static
C22_ByOriginOutsideNextStatic ==
  pc = "done" =>
    LET publicDir == join(ProjectDir, <<"public">>)
        staticDir == join(DistDir, <<"static">>)
    IN \A i \in 1..Len(assetsToEmbed) :
         LET abs == assetsToEmbed[i].absolutePath IN
         /\ (IsProperPrefix(publicDir, abs)
             /\ ~IsProperPrefix(join(publicDir, <<"_next", "static">>), abs)) =>
              EntryExtractions[i].w = <<"public">> \o relative(publicDir, abs)
         /\ IsProperPrefix(staticDir, abs) =>
              EntryExtractions[i].w = <<".next", "static">> \o relative(staticDir, abs)

====
